---- MODULE Spec2Model ----
(***************************************************************************)
(* Model of zilpool/apis/stats.py: the read-only statistics RPC methods of *)
(* the Zilliqa mining proxy.  One request at a time walks through the      *)
(* store reads of its handler, in the order Python evaluates them, while   *)
(* the submission pipeline (another writer of the shared document store)   *)
(* and the clock move between any two reads.                               *)
(***************************************************************************)
EXTENDS Integers, Sequences, FiniteSets, TLC

\* ------------------------------------------------------------- bounds
MaxTime   == 1    \* the clock runs over 0..MaxTime
MaxBlock  == 1    \* block numbers are 0..MaxBlock
MaxWrites == 3    \* writes of the submission pipeline in one behaviour
MaxList   == 2    \* longest block-number list given to stats_hashrate

Times  == 0..MaxTime
Blocks == 0..MaxBlock

\* Seconds to the next window the local schedule may hold.
LocalSecs == {0, 1}

\* DS epochs the chain poller sees; 0 is the state before the first poll.
ChainEpochs == {0, 1, 2}

\* Python's None and a present value; every optional value is None or Some(x).
None    == <<>>
Some(x) == <<x>>

VARIABLES
    clock,      \* datetime.utcnow()
    nodes,      \* zilnode.ZilNode collection
    miners,     \* miner.Miner collection
    workers,    \* miner.Worker collection
    works,      \* pow.PowWork collection
    results,    \* pow.PowResult collection, in insertion order
    pow_window, \* pow.PoWWindow: locally tracked seconds to the next window
    zil,        \* utils.Zilliqa: the chain state kept by the poller
    enabled,    \* config["zilliqa"]["enabled"]
    writes,     \* pipeline writes so far (bounded by MaxWrites)
    pc,         \* position of the request in its handler
    method,     \* RPC method of the request in flight
    args,       \* its arguments, after utils.args_to_lower
    l,          \* the handler's local variables
    reads,      \* collections read by the request so far, in order
    resp        \* the response: None, or Some(value) once returned

store == <<nodes, miners, workers, works, results>>
env   == <<clock, pow_window, zil, enabled, writes>>
req   == <<pc, method, args, l, reads, resp>>
vars  == <<clock, nodes, miners, workers, works, results, pow_window, zil,
           enabled, writes, pc, method, args, l, reads, resp>>

\* ------------------------------------------------ external collaborators

\* utils.iso_format: None stays None, a time becomes its textual form.
iso_format(t) == IF t = None THEN None ELSE Some([iso |-> t[1]])

\* utils.args_to_lower: string arguments are lowercased.
Lower(s) ==
    CASE s = "W1" -> "w1"
      [] s = "R1" -> "r1"
      [] s = "0xAA" -> "0xaa"
      [] OTHER -> s

args_to_lower(o) == IF o = None THEN None ELSE Some(Lower(o[1]))

\* crypto.bytes_to_hex_str_0x(crypto.hex_str_to_bytes(k)): canonical 0x hex.
NormalizePubKey(k) ==
    CASE k = "aa" -> "0xaa"
      [] k = "bb" -> "0xbb"
      [] OTHER -> k

RECURSIVE Pow2(_)
Pow2(n) == IF n = 0 THEN 1 ELSE 2 * Pow2(n - 1)

\* ethash.difficulty_to_hashpower
difficulty_to_hashpower(d) == Pow2(d)

SetMax(S) == CHOOSE x \in S : \A y \in S : y <= x
SetMin(S) == CHOOSE x \in S : \A y \in S : x <= y

BlockNums(ws) == {w.block_num : w \in ws}

\* pow.PowWork.get_latest_work: the Work of greatest block number, or None.
get_latest_work(ws) ==
    IF ws = {} THEN None
    ELSE Some(CHOOSE w \in ws : w.block_num = SetMax(BlockNums(ws)))

\* pow.PowWork.get_latest_block_num / get_first_block_num (-1: no Work).
get_latest_block_num(ws) == IF ws = {} THEN -1 ELSE SetMax(BlockNums(ws))
get_first_block_num(ws)  == IF ws = {} THEN -1 ELSE SetMin(BlockNums(ws))

\* pow.PowWork.epoch_difficulty: the latest epoch's figures, in stored order.
epoch_difficulty(ws) ==
    IF ws = {} THEN <<>> ELSE get_latest_work(ws)[1].difficulty

\* Document.count(): the number of records of a collection kept as a set,
\* and of one kept in insertion order.
Count(coll) == Cardinality(coll)
SeqCount(s) == Len(s)

\* The Results, in insertion order, that satisfy a query given as the set
\* of matching positions.
Selected(s, I) == Cardinality(I \cap DOMAIN s)

\* Whether a Result is in the scope of optional wallet and worker filters.
InScope(r, wallet, worker) ==
    /\ wallet = None \/ r.miner_wallet = wallet[1]
    /\ worker = None \/ r.worker_name = worker[1]

\* miner.HashRate.epoch_hashrate(block_num, wallet_address, worker_name):
\* block_num None is the current epoch.
epoch_hashrate(block_num, wallet, worker) ==
    LET b == IF block_num = None THEN get_latest_block_num(works)
             ELSE block_num[1]
    IN  Selected(results, {i \in DOMAIN results :
                               /\ results[i].block_num = b
                               /\ InScope(results[i], wallet, worker)})

\* pow.PowResult.avg_pow_fee(block_num)
avg_pow_fee(block_num) ==
    Selected(results, {i \in DOMAIN results :
                           results[i].block_num = block_num /\ results[i].verified})

\* ---------------------------------------------------------------- Init

\* The difficulty figures of each epoch, in the order the store keeps them.
EpochDifficultyOf(b) ==
    CASE b % 3 = 0 -> <<1, 2>>
      [] b % 3 = 1 -> <<3, 1>>
      [] OTHER -> <<2, 2>>

\* The chain state the poller finds at DS epoch k: the shard difficulty is
\* above the DS difficulty in odd epochs and below it in even ones.
ChainAt(k) ==
    [cur_ds_block |-> k, cur_tx_block |-> 2 * k + 1,
     shard_difficulty |-> IF k % 2 = 1 THEN 2 ELSE 1,
     ds_difficulty |-> IF k % 2 = 1 THEN 1 ELSE 2,
     secs_to_next_pow |-> k % 2]

NoLocals == [none |-> TRUE]

InitRequest ==
    /\ pc = "idle"
    /\ method = "none"
    /\ args = <<>>
    /\ l = NoLocals
    /\ reads = <<>>
    /\ resp = None

Init ==
    /\ clock = 0
    /\ nodes = {[pub_key |-> "0xaa", pow_fee |-> 0, authorized |-> TRUE,
                 active |-> TRUE]}
    /\ miners = {[wallet_address |-> "w1", authorized |-> TRUE,
                  nick_name |-> "one", rewards |-> 0, join_date |-> 0,
                  workers_name |-> <<"r1", "r2">>]}
    /\ workers = {[wallet_address |-> "w1", worker_name |-> "r1", active |-> TRUE],
                  [wallet_address |-> "w1", worker_name |-> "r2", active |-> FALSE]}
    /\ works = {}
    /\ results = <<>>
    /\ pow_window = 0
    /\ zil = ChainAt(0)
    /\ enabled \in BOOLEAN
    /\ writes = 0
    /\ InitRequest

\* The handlers other than current_work never look at the configuration.
InitLocal == Init /\ enabled = FALSE

\* ------------------------------------------- the world around a request

\* The clock advances.
Tick ==
    /\ clock < MaxTime
    /\ clock' = clock + 1
    /\ UNCHANGED <<store, pow_window, zil, enabled, writes, req>>

\* The submission pipeline opens a Work for a block number above all known.
AddWork ==
    /\ writes < MaxWrites
    /\ \E b \in Blocks, ttl \in 0..1 :
         /\ \A w \in works : w.block_num < b
         /\ works' = works \cup
                {[block_num |-> b, start_time |-> clock,
                  expire_time |-> clock + ttl, finished |-> FALSE,
                  difficulty |-> EpochDifficultyOf(b), pub_key |-> "0xaa"]}
    /\ writes' = writes + 1
    /\ UNCHANGED <<nodes, miners, workers, results, clock, pow_window, zil,
                   enabled, pc, method, args, l, reads, resp>>

\* The pipeline marks a Work finished.
FinishWork ==
    /\ writes < MaxWrites
    /\ \E w \in works :
         /\ ~w.finished
         /\ works' = (works \ {w}) \cup {[w EXCEPT !.finished = TRUE]}
    /\ writes' = writes + 1
    /\ UNCHANGED <<nodes, miners, workers, results, clock, pow_window, zil,
                   enabled, pc, method, args, l, reads, resp>>

\* The pipeline records a worker's submission for the latest Work.
AddResult ==
    /\ writes < MaxWrites
    /\ works # {}
    /\ \E wk \in workers, v \in BOOLEAN :
         results' = Append(results,
             [miner_wallet |-> wk.wallet_address, worker_name |-> wk.worker_name,
              finished_time |-> clock, verified |-> v,
              block_num |-> get_latest_block_num(works)])
    /\ writes' = writes + 1
    /\ UNCHANGED <<nodes, miners, workers, works, clock, pow_window, zil,
                   enabled, pc, method, args, l, reads, resp>>

\* --------------------------------------------------------------- stats

\* WorkingQ with expire_time__gt in place of expire_time__gte.
WorkingQ_Strict(w, now) == w.expire_time > now /\ ~w.finished

\* summary, line 77: working_q = Q(expire_time__gte=now) & Q(finished=False)
WorkingQ(w, now) == w.expire_time >= now /\ ~w.finished

\* l.writes0 is not a variable of the code: it remembers how many writes the
\* pipeline had made when the call began.
StartSummary ==
    /\ pc = "idle"
    /\ pc' = "s_q"
    /\ method' = "stats"
    /\ args' = <<>>
    /\ l' = [q_now |-> None, utc_time |-> None, nodes_all |-> 0,
             nodes_active |-> 0, miners |-> 0, workers_all |-> 0,
             workers_active |-> 0, works_all |-> 0, working |-> 0,
             finished |-> 0, writes0 |-> writes]
    /\ reads' = <<>>
    /\ resp' = None
    /\ UNCHANGED <<store, env>>

\* line 77: the working query takes its instant from the clock.
SummaryQuery ==
    /\ pc = "s_q"
    /\ l' = [l EXCEPT !.q_now = Some(clock)]
    /\ pc' = "s_utc"
    /\ UNCHANGED <<store, env, method, args, reads, resp>>

\* line 81: utc_time is a second reading of the clock.
SummaryUtcNow == clock

SummaryUtcTime ==
    /\ pc = "s_utc"
    /\ l' = [l EXCEPT !.utc_time = iso_format(Some(SummaryUtcNow))]
    /\ pc' = "s_nodes"
    /\ UNCHANGED <<store, env, method, args, reads, resp>>

\* lines 83-84: ZilNode.count(), ZilNode.active_count()
SummaryNodes ==
    /\ pc = "s_nodes"
    /\ l' = [l EXCEPT !.nodes_all = Count(nodes),
                      !.nodes_active = Count({n \in nodes : n.active})]
    /\ reads' = reads \o <<"nodes", "nodes">>
    /\ pc' = "s_miners"
    /\ UNCHANGED <<store, env, method, args, resp>>

\* lines 86-89: Miner.count(), Worker.count(), Worker.active_count()
SummaryMiners ==
    /\ pc = "s_miners"
    /\ l' = [l EXCEPT !.miners = Count(miners),
                      !.workers_all = Count(workers),
                      !.workers_active = Count({w \in workers : w.active})]
    /\ reads' = reads \o <<"miners", "workers", "workers">>
    /\ pc' = "s_all"
    /\ UNCHANGED <<store, env, method, args, resp>>

\* line 92: PowWork.count()
SummaryWorksAll ==
    /\ pc = "s_all"
    /\ l' = [l EXCEPT !.works_all = Count(works)]
    /\ reads' = Append(reads, "works")
    /\ pc' = "s_working"
    /\ UNCHANGED <<store, env, method, args, resp>>

\* line 93: PowWork.count(working_q)
SummaryWorking ==
    /\ pc = "s_working"
    /\ l' = [l EXCEPT !.working = Count({w \in works : WorkingQ(w, l.q_now[1])})]
    /\ reads' = Append(reads, "works")
    /\ pc' = "s_finished"
    /\ UNCHANGED <<store, env, method, args, resp>>

\* CountFinished asking the Result collection: PowResult.count().
CountFinished_Results == SeqCount(results)

\* line 94: PowWork.count(finished=True)
CountFinished == Count({w \in works : w.finished})

SummaryFinished ==
    /\ pc = "s_finished"
    /\ l' = [l EXCEPT !.finished = CountFinished]
    /\ reads' = Append(reads, "works")
    /\ pc' = "s_verified"
    /\ UNCHANGED <<store, env, method, args, resp>>

\* line 95: PowResult.count(verified=True)
CountVerified == Selected(results, {i \in DOMAIN results : results[i].verified})

\* line 95 and the response of lines 79-97.
SummaryVerified ==
    /\ pc = "s_verified"
    /\ resp' = Some([utc_time |-> l.utc_time,
                     nodes |-> [all |-> l.nodes_all, active |-> l.nodes_active],
                     miners |-> l.miners,
                     workers |-> [all |-> l.workers_all, active |-> l.workers_active],
                     works |-> [all |-> l.works_all, working |-> l.working,
                                finished |-> l.finished,
                                verified |-> CountVerified]])
    /\ reads' = Append(reads, "results")
    /\ pc' = "done"
    /\ UNCHANGED <<store, env, method, args, l>>

\* The response goes back to the caller; the handler's frame is gone.
Return ==
    /\ pc = "done"
    /\ pc' = "idle"
    /\ method' = "none"
    /\ args' = <<>>
    /\ l' = NoLocals
    /\ reads' = <<>>
    /\ resp' = None
    /\ UNCHANGED <<store, env>>

SummaryStep ==
    \/ StartSummary \/ SummaryQuery \/ SummaryUtcTime \/ SummaryNodes
    \/ SummaryMiners \/ SummaryWorksAll \/ SummaryWorking \/ SummaryFinished
    \/ SummaryVerified

NextSummary == Tick \/ AddWork \/ FinishWork \/ AddResult \/ SummaryStep \/ Return

SpecSummary == InitLocal /\ [][NextSummary]_vars

\* ------------------------------------------------------- stats_current

\* The in-process poller refreshes utils.Zilliqa.  The handlers are
\* synchronous code on the poller's event loop, so it runs between
\* requests only.
PollChain ==
    /\ pc = "idle"
    /\ zil.cur_ds_block + 1 \in ChainEpochs
    /\ zil' = ChainAt(zil.cur_ds_block + 1)
    /\ UNCHANGED <<store, clock, pow_window, enabled, writes, req>>

\* The pipeline moves the locally tracked window schedule (pow.PoWWindow).
UpdatePoWWindow ==
    /\ \E s \in LocalSecs : pow_window' = s
    /\ pow_window' # pow_window
    /\ UNCHANGED <<store, clock, zil, enabled, writes, req>>

\* Python's sorted(), by insertion into an ascending sequence.
RECURSIVE Insert(_, _)
Insert(x, s) ==
    IF s = <<>> THEN <<x>>
    ELSE IF x <= Head(s) THEN <<x>> \o s
    ELSE <<Head(s)>> \o Insert(x, Tail(s))

RECURSIVE Sorted(_)
Sorted(s) == IF s = <<>> THEN <<>> ELSE Insert(Head(s), Sorted(Tail(s)))

StartCurrent ==
    /\ pc = "idle"
    /\ pc' = "c_latest"
    /\ method' = "stats_current"
    /\ args' = <<>>
    /\ l' = [latest_work |-> None, block_num |-> 0, tx_block_num |-> None,
             difficulty |-> <<0, 0>>, start_time |-> None, now |-> 0,
             secs_next_pow |-> 0, next_pow_time |-> 0, avg_hashrate |-> 0]
    /\ reads' = <<>>
    /\ resp' = None
    /\ UNCHANGED <<store, env>>

\* lines 101-110: the latest Work, its block number and start time.
CurrentLatest ==
    /\ pc = "c_latest"
    /\ LET latest_work == get_latest_work(works)
       IN  /\ l' = IF latest_work # None
                   THEN [l EXCEPT !.latest_work = latest_work,
                                  !.block_num = latest_work[1].block_num,
                                  !.start_time = Some(latest_work[1].start_time)]
                   ELSE l
           /\ pc' = IF latest_work # None THEN "c_diff" ELSE "c_now"
    /\ reads' = Append(reads, "works")
    /\ UNCHANGED <<store, env, method, args, resp>>

\* LocalDifficulty without the sort.
LocalDifficulty_Unsorted(ws) == epoch_difficulty(ws)

\* line 111: difficulty = sorted(PowWork.epoch_difficulty())
LocalDifficulty(ws) == Sorted(epoch_difficulty(ws))

CurrentDifficulty ==
    /\ pc = "c_diff"
    /\ l' = [l EXCEPT !.difficulty = LocalDifficulty(works)]
    /\ reads' = Append(reads, "works")
    /\ pc' = "c_now"
    /\ UNCHANGED <<store, env, method, args, resp>>

\* line 113: now = datetime.utcnow()
CurrentNow ==
    /\ pc = "c_now"
    /\ l' = [l EXCEPT !.now = clock]
    /\ pc' = "c_secs"
    /\ UNCHANGED <<store, env, method, args, reads, resp>>

\* ChainDifficulty sorted as the local path sorts its pair.
ChainDifficulty_Sorted(z) ==
    Sorted(<<difficulty_to_hashpower(z.shard_difficulty),
             difficulty_to_hashpower(z.ds_difficulty)>>)

\* lines 119-120: the chain's pair, converted, in the order shard, ds.
ChainDifficulty(z) ==
    <<difficulty_to_hashpower(z.shard_difficulty),
      difficulty_to_hashpower(z.ds_difficulty)>>

\* lines 114-123: the local schedule is read, then the chain state
\* replaces the local figures when the chain source is enabled.
CurrentSource ==
    /\ pc = "c_secs"
    /\ LET secs == IF enabled THEN zil.secs_to_next_pow ELSE pow_window
       IN  l' = IF enabled
                THEN [l EXCEPT !.block_num = zil.cur_ds_block,
                               !.tx_block_num = Some(zil.cur_tx_block),
                               !.difficulty = ChainDifficulty(zil),
                               !.secs_next_pow = secs,
                               !.next_pow_time = l.now + secs]
                ELSE [l EXCEPT !.secs_next_pow = secs,
                               !.next_pow_time = l.now + secs]
    /\ reads' = Append(reads, "pow_window")
    /\ pc' = "c_hashrate"
    /\ UNCHANGED <<store, env, method, args, resp>>

\* line 132: HashRate.epoch_hashrate(None)
CurrentHashrate ==
    /\ pc = "c_hashrate"
    /\ l' = [l EXCEPT !.avg_hashrate = epoch_hashrate(None, None, None)]
    /\ reads' = Append(reads, "hashrate")
    /\ pc' = "c_fee"
    /\ UNCHANGED <<store, env, method, args, resp>>

\* line 133: PowResult.avg_pow_fee(block_num), and the response of 125-134.
CurrentFee ==
    /\ pc = "c_fee"
    /\ resp' = Some([block_num |-> l.block_num,
                     tx_block_num |-> l.tx_block_num,
                     difficulty |-> l.difficulty,
                     utc_time |-> iso_format(Some(l.now)),
                     start_time |-> iso_format(l.start_time),
                     next_pow_time |-> iso_format(Some(l.next_pow_time)),
                     avg_hashrate |-> l.avg_hashrate,
                     avg_pow_fee |-> avg_pow_fee(l.block_num)])
    /\ reads' = Append(reads, "results")
    /\ pc' = "done"
    /\ UNCHANGED <<store, env, method, args, l>>

CurrentStep ==
    \/ StartCurrent \/ CurrentLatest \/ CurrentDifficulty \/ CurrentNow
    \/ CurrentSource \/ CurrentHashrate \/ CurrentFee

NextCurrent ==
    \/ Tick \/ AddWork \/ PollChain \/ UpdatePoWWindow \/ CurrentStep \/ Return

SpecCurrent == Init /\ [][NextCurrent]_vars

\* ------------------------------- stats_node, stats_miner, stats_worker

\* ZilNode.get_by_pub_key(pub_key, authorized=None), Miner.get and
\* Worker.get: the records matching the key (at most one, keys are unique).
NodesByPubKey(pub_key) == {n \in nodes : n.pub_key = pub_key}
MinersByWallet(wallet) == {m \in miners : m.wallet_address = wallet}
WorkersByName(wallet, name) ==
    {w \in workers : w.wallet_address = wallet /\ w.worker_name = name}

\* The block numbers of a set of Works, newest first.
RECURSIVE NewestFirst(_)
NewestFirst(ws) ==
    IF ws = {} THEN <<>>
    ELSE LET w == get_latest_work(ws)[1]
         IN  <<w.block_num>> \o NewestFirst(ws \ {w})

Take(s, n) == SubSeq(s, 1, IF Len(s) < n THEN Len(s) ELSE n)

\* node_stats, line 142: count=6
LatestWorksCount == 6

\* pow.PowWork.get_node_works(pub_key, count)
get_node_works(pub_key, count) ==
    Take(NewestFirst({w \in works : w.pub_key = pub_key}), count)

\* ZilNode.works_stats()
node_works_stats(pub_key) ==
    [all |-> Count({w \in works : w.pub_key = pub_key}),
     finished |-> Count({w \in works : w.pub_key = pub_key /\ w.finished})]

\* Miner.works_stats() and Worker.works_stats()
works_stats(wallet, worker) ==
    [all |-> Selected(results, {i \in DOMAIN results :
                                  InScope(results[i], wallet, worker)}),
     verified |-> Selected(results, {i \in DOMAIN results :
                                       /\ InScope(results[i], wallet, worker)
                                       /\ results[i].verified})]

\* The indices of the Results in scope.
Matching(wallet, worker) ==
    {i \in DOMAIN results : InScope(results[i], wallet, worker)}

\* LastByFinishedTime with order="finished_time": the ascending sort.
LastByFinishedTime_Ascending(S) ==
    {i \in S : \A j \in S : results[i].finished_time <= results[j].finished_time}

\* PowResult.get(..., order="-finished_time"): the Results a descending
\* sort by finished time may put first; which one among ties is the store's.
LastByFinishedTime(S) ==
    {i \in S : \A j \in S : results[j].finished_time <= results[i].finished_time}

\* Python's `x and x.finished_time`
AndFinishedTime(last_work) ==
    IF last_work = None THEN None ELSE Some(last_work[1].finished_time)

PubKeyArgs == {"0xAA", "aa", "0xbb"}
WalletArgs == {"W1", "w1", "w2"}
WorkerArgs == {"R1", "r2", "r3"}

StartNode ==
    /\ pc = "idle"
    /\ \E k \in PubKeyArgs : args' = [pub_key |-> Lower(k)]
    /\ pc' = "n_lookup"
    /\ method' = "stats_node"
    /\ l' = [pub_key |-> None, node |-> None, latest_works |-> <<>>]
    /\ reads' = <<>>
    /\ resp' = None
    /\ UNCHANGED <<store, env>>

\* lines 138-140: normalize the key, look the node up, return None if absent.
NodeLookup ==
    /\ pc = "n_lookup"
    /\ LET pub_key == NormalizePubKey(args.pub_key)
           found == NodesByPubKey(pub_key)
       IN  /\ reads' = Append(reads, "nodes")
           /\ IF found # {}
              THEN /\ l' = [l EXCEPT !.pub_key = Some(pub_key),
                                     !.node = Some(CHOOSE n \in found : TRUE)]
                   /\ pc' = "n_works"
                   /\ resp' = resp
              ELSE /\ l' = [l EXCEPT !.pub_key = Some(pub_key)]
                   /\ pc' = "done"
                   /\ resp' = None
    /\ UNCHANGED <<store, env, method, args>>

\* NodeWorks closing the Works whose expiry has passed while it reads them.
NodeWorks_MarkExpired ==
    /\ pc = "n_works"
    /\ l' = [l EXCEPT !.latest_works =
                 get_node_works(l.node[1].pub_key, LatestWorksCount)]
    /\ works' = {[w EXCEPT !.finished = w.finished \/ w.expire_time <= clock] :
                    w \in works}
    /\ reads' = Append(reads, "works")
    /\ pc' = "n_stats"
    /\ UNCHANGED <<nodes, miners, workers, results, env, method, args, resp>>

\* lines 141-142: the node's latest works
NodeWorks ==
    /\ pc = "n_works"
    /\ l' = [l EXCEPT !.latest_works =
                 get_node_works(l.node[1].pub_key, LatestWorksCount)]
    /\ reads' = Append(reads, "works")
    /\ pc' = "n_stats"
    /\ UNCHANGED <<store, env, method, args, resp>>

\* lines 143-149
NodeStats ==
    /\ pc = "n_stats"
    /\ resp' = Some([pub_key |-> l.node[1].pub_key,
                     pow_fee |-> l.node[1].pow_fee,
                     authorized |-> l.node[1].authorized,
                     latest_works |-> l.latest_works,
                     works |-> node_works_stats(l.node[1].pub_key)])
    /\ reads' = Append(reads, "works")
    /\ pc' = "done"
    /\ UNCHANGED <<store, env, method, args, l>>

StartMiner ==
    /\ pc = "idle"
    /\ \E w \in WalletArgs : args' = [wallet_address |-> Lower(w)]
    /\ pc' = "m_lookup"
    /\ method' = "stats_miner"
    /\ l' = [m |-> None, last_work |-> None, hashrate |-> 0]
    /\ reads' = <<>>
    /\ resp' = None
    /\ UNCHANGED <<store, env>>

\* MinerLookup fetching the last Result before it tests the miner.
MinerLookup_EagerLast ==
    /\ pc = "m_lookup"
    /\ LET found == MinersByWallet(args.wallet_address)
       IN  /\ reads' = reads \o <<"miners", "results">>
           /\ IF found # {}
              THEN /\ l' = [l EXCEPT !.m = Some(CHOOSE m \in found : TRUE)]
                   /\ pc' = "m_last"
              ELSE /\ l' = l
                   /\ pc' = "done"
    /\ resp' = None
    /\ UNCHANGED <<store, env, method, args>>

\* lines 153-154: look the miner up, return None if absent.
MinerLookup ==
    /\ pc = "m_lookup"
    /\ LET found == MinersByWallet(args.wallet_address)
       IN  /\ reads' = Append(reads, "miners")
           /\ IF found # {}
              THEN /\ l' = [l EXCEPT !.m = Some(CHOOSE m \in found : TRUE)]
                   /\ pc' = "m_last"
              ELSE /\ l' = l
                   /\ pc' = "done"
    /\ resp' = None
    /\ UNCHANGED <<store, env, method, args>>

\* lines 155-156: the miner's Results a descending sort may put first
MinerLastWorks == LastByFinishedTime(Matching(Some(args.wallet_address), None))

MinerLast ==
    /\ pc = "m_last"
    /\ IF Matching(Some(args.wallet_address), None) = {}
       THEN l' = [l EXCEPT !.last_work = None]
       ELSE \E i \in MinerLastWorks : l' = [l EXCEPT !.last_work = Some(results[i])]
    /\ reads' = Append(reads, "results")
    /\ pc' = "m_hashrate"
    /\ UNCHANGED <<store, env, method, args, resp>>

\* line 164
MinerHashrate ==
    /\ pc = "m_hashrate"
    /\ l' = [l EXCEPT !.hashrate =
                 epoch_hashrate(None, Some(l.m[1].wallet_address), None)]
    /\ reads' = Append(reads, "hashrate")
    /\ pc' = "m_works"
    /\ UNCHANGED <<store, env, method, args, resp>>

\* lines 157-167
MinerWorks ==
    /\ pc = "m_works"
    /\ resp' = Some([wallet_address |-> l.m[1].wallet_address,
                     authorized |-> l.m[1].authorized,
                     nick_name |-> l.m[1].nick_name,
                     rewards |-> l.m[1].rewards,
                     join_date |-> iso_format(Some(l.m[1].join_date)),
                     last_finished_time |-> iso_format(AndFinishedTime(l.last_work)),
                     hashrate |-> l.hashrate,
                     workers |-> l.m[1].workers_name,
                     works |-> works_stats(Some(l.m[1].wallet_address), None)])
    /\ reads' = Append(reads, "results")
    /\ pc' = "done"
    /\ UNCHANGED <<store, env, method, args, l>>

StartWorker ==
    /\ pc = "idle"
    /\ \E w \in WalletArgs, n \in WorkerArgs :
         args' = [wallet_address |-> Lower(w), worker_name |-> Lower(n)]
    /\ pc' = "w_lookup"
    /\ method' = "stats_worker"
    /\ l' = [worker |-> None, last_work |-> None, works |-> None]
    /\ reads' = <<>>
    /\ resp' = None
    /\ UNCHANGED <<store, env>>

\* lines 171-173: look the worker up, return None if absent.
WorkerLookup ==
    /\ pc = "w_lookup"
    /\ LET found == WorkersByName(args.wallet_address, args.worker_name)
       IN  /\ reads' = Append(reads, "workers")
           /\ IF found # {}
              THEN /\ l' = [l EXCEPT !.worker = Some(CHOOSE w \in found : TRUE)]
                   /\ pc' = "w_last"
              ELSE /\ l' = l
                   /\ pc' = "done"
    /\ resp' = None
    /\ UNCHANGED <<store, env, method, args>>

\* lines 174-176: the worker's Results a descending sort may put first
WorkerLastWorks ==
    LastByFinishedTime(Matching(Some(args.wallet_address), Some(args.worker_name)))

WorkerLast ==
    /\ pc = "w_last"
    /\ IF Matching(Some(args.wallet_address), Some(args.worker_name)) = {}
       THEN l' = [l EXCEPT !.last_work = None]
       ELSE \E i \in WorkerLastWorks : l' = [l EXCEPT !.last_work = Some(results[i])]
    /\ reads' = Append(reads, "results")
    /\ pc' = "w_works"
    /\ UNCHANGED <<store, env, method, args, resp>>

\* line 181
WorkerWorks ==
    /\ pc = "w_works"
    /\ l' = [l EXCEPT !.works =
                 Some(works_stats(Some(args.wallet_address),
                                  Some(l.worker[1].worker_name)))]
    /\ reads' = Append(reads, "results")
    /\ pc' = "w_hashrate"
    /\ UNCHANGED <<store, env, method, args, resp>>

\* lines 177-187, hashrate=True
WorkerHashrate ==
    /\ pc = "w_hashrate"
    /\ resp' = Some([miner |-> args.wallet_address,
                     worker_name |-> l.worker[1].worker_name,
                     last_finished_time |-> iso_format(AndFinishedTime(l.last_work)),
                     works |-> l.works[1],
                     hashrate |-> epoch_hashrate(None, Some(args.wallet_address),
                                                 Some(l.worker[1].worker_name))])
    /\ reads' = Append(reads, "hashrate")
    /\ pc' = "done"
    /\ UNCHANGED <<store, env, method, args, l>>

IdentityStep ==
    \/ StartNode \/ NodeLookup \/ NodeWorks \/ NodeStats
    \/ StartMiner \/ MinerLookup \/ MinerLast \/ MinerHashrate \/ MinerWorks
    \/ StartWorker \/ WorkerLookup \/ WorkerLast \/ WorkerWorks \/ WorkerHashrate

NextIdentity ==
    Tick \/ AddWork \/ FinishWork \/ AddResult \/ IdentityStep \/ Return

SpecIdentity == InitLocal /\ [][NextIdentity]_vars

\* ------------------------------------------ stats_hashrate, stats_reward

\* All sequences over S of length at most n.
RECURSIVE SeqsUpTo(_, _)
SeqsUpTo(S, n) ==
    IF n = 0 THEN {<<>>}
    ELSE LET shorter == SeqsUpTo(S, n - 1)
         IN  shorter \cup {Append(q, x) : q \in shorter, x \in S}

Optional(S) == {None} \cup {Some(x) : x \in S}

\* The wallet and worker filters a caller may give.
ScopeArgs == {<<None, None>>, <<Some("W1"), Some("R1")>>}

\* ResolveBlockNum with `if not block_num`: block 0 taken for absent.
ResolveBlockNum_Falsy(block_num, ws) ==
    IF block_num = None \/ block_num = Some(0)
    THEN get_latest_block_num(ws) ELSE block_num[1]

\* hashrate_stats, lines 191-192: None is the latest block number.
ResolveBlockNum(block_num, ws) ==
    IF block_num = None THEN get_latest_block_num(ws) ELSE block_num[1]

\* stats_hashrate, line 58: blocks is what utils.block_num_to_list made of
\* the block_num argument.
StartHashrate ==
    /\ pc = "idle"
    /\ \E blocks \in SeqsUpTo(Optional(Blocks), MaxList), sc \in ScopeArgs :
         args' = [blocks |-> blocks,
                  wallet_address |-> args_to_lower(sc[1]),
                  worker_name |-> args_to_lower(sc[2])]
    /\ pc' = "h_next"
    /\ method' = "stats_hashrate"
    /\ l' = [i |-> 1, block_num |-> 0, out |-> <<>>]
    /\ reads' = <<>>
    /\ resp' = None
    /\ UNCHANGED <<store, env>>

\* lines 60-63 and 191-192: the next element of blocks, resolved.
HashrateResolve ==
    /\ pc = "h_next"
    /\ l.i <= Len(args.blocks)
    /\ l' = [l EXCEPT !.block_num = ResolveBlockNum(args.blocks[l.i], works)]
    /\ reads' = IF args.blocks[l.i] = None THEN Append(reads, "works") ELSE reads
    /\ pc' = "h_rate"
    /\ UNCHANGED <<store, env, method, args, resp>>

\* lines 194-197: the entry of that element
HashrateEntry ==
    /\ pc = "h_rate"
    /\ l' = [l EXCEPT !.i = l.i + 1,
                      !.out = Append(l.out,
                          [block_num |-> l.block_num,
                           hashrate |-> epoch_hashrate(Some(l.block_num),
                                            args.wallet_address, args.worker_name)])]
    /\ reads' = Append(reads, "hashrate")
    /\ pc' = "h_next"
    /\ UNCHANGED <<store, env, method, args, resp>>

\* line 60: the list is returned once blocks is exhausted.
HashrateReturn ==
    /\ pc = "h_next"
    /\ l.i > Len(args.blocks)
    /\ resp' = Some(l.out)
    /\ pc' = "done"
    /\ UNCHANGED <<store, env, method, args, l, reads>>

\* pow.PowResult.epoch_rewards(block_num=(start, end), miner_wallet, worker_name),
\* with lines 212-213 applied to its two timestamps.
epoch_rewards(range, wallet, worker) ==
    LET S == {i \in DOMAIN results :
                /\ range[1] <= results[i].block_num
                /\ results[i].block_num <= range[2]
                /\ InScope(results[i], wallet, worker)}
        T == {results[i].finished_time : i \in S}
    IN  [count |-> Cardinality(S),
         first_work_at |-> iso_format(IF S = {} THEN None ELSE Some(SetMin(T))),
         last_work_at |-> iso_format(IF S = {} THEN None ELSE Some(SetMax(T)))]

\* ResolveStartBlock defaulting to the latest block, as the end does.
ResolveStartBlock_Latest(start_block, ws) ==
    IF start_block = None THEN get_latest_block_num(ws) ELSE start_block[1]

\* reward_stats, lines 202-203
ResolveStartBlock(start_block, ws) ==
    IF start_block = None THEN get_first_block_num(ws) ELSE start_block[1]

\* reward_stats, lines 204-205
ResolveEndBlock(end_block, ws) ==
    IF end_block = None THEN get_latest_block_num(ws) ELSE end_block[1]

StartReward ==
    /\ pc = "idle"
    /\ \E sb \in Optional(Blocks), eb \in Optional(Blocks), sc \in ScopeArgs :
         args' = [start_block |-> sb, end_block |-> eb,
                  wallet_address |-> args_to_lower(sc[1]),
                  worker_name |-> args_to_lower(sc[2])]
    /\ pc' = "r_start"
    /\ method' = "stats_reward"
    /\ l' = [start_block |-> 0, end_block |-> 0, call |-> None]
    /\ reads' = <<>>
    /\ resp' = None
    /\ UNCHANGED <<store, env>>

RewardStart ==
    /\ pc = "r_start"
    /\ l' = [l EXCEPT !.start_block = ResolveStartBlock(args.start_block, works)]
    /\ reads' = IF args.start_block = None THEN Append(reads, "works") ELSE reads
    /\ pc' = "r_end"
    /\ UNCHANGED <<store, env, method, args, resp>>

RewardEnd ==
    /\ pc = "r_end"
    /\ l' = [l EXCEPT !.end_block = ResolveEndBlock(args.end_block, works)]
    /\ reads' = IF args.end_block = None THEN Append(reads, "works") ELSE reads
    /\ pc' = "r_rewards"
    /\ UNCHANGED <<store, env, method, args, resp>>

\* lines 207-211: the arguments epoch_rewards is called with
RewardsCall ==
    [block_num |-> <<l.start_block, l.end_block>>,
     miner_wallet |-> args.wallet_address,
     worker_name |-> args.worker_name]

\* lines 215-221: the bounds and filters echoed in the response
RewardsEcho ==
    [start_block |-> l.start_block, end_block |-> l.end_block,
     wallet_address |-> args.wallet_address, worker_name |-> args.worker_name]

\* lines 207-221
RewardRewards ==
    /\ pc = "r_rewards"
    /\ LET call == RewardsCall
           echo == RewardsEcho
       IN  /\ l' = [l EXCEPT !.call = Some(call)]
           /\ resp' = Some([start_block |-> echo.start_block,
                            end_block |-> echo.end_block,
                            wallet_address |-> echo.wallet_address,
                            worker_name |-> echo.worker_name,
                            rewards |-> epoch_rewards(call.block_num,
                                            call.miner_wallet, call.worker_name)])
    /\ reads' = Append(reads, "results")
    /\ pc' = "done"
    /\ UNCHANGED <<store, env, method, args>>

HashrateStep ==
    StartHashrate \/ HashrateResolve \/ HashrateEntry \/ HashrateReturn

RewardStep == StartReward \/ RewardStart \/ RewardEnd \/ RewardRewards

NextHashrate == AddWork \/ AddResult \/ HashrateStep \/ Return

SpecHashrate == InitLocal /\ [][NextHashrate]_vars

NextReward == AddWork \/ AddResult \/ RewardStep \/ Return

SpecReward == InitLocal /\ [][NextReward]_vars

\* ------------------------------------------------ the whole RPC surface

RpcStep ==
    SummaryStep \/ CurrentStep \/ IdentityStep \/ HashrateStep \/ RewardStep

\* The single-process deployment: the pipeline's handlers and the statistics
\* handlers are coroutines of one event loop and the statistics handlers
\* never await, so the pipeline writes between requests only.
BetweenRequests == pc = "idle" /\ (AddWork \/ FinishWork \/ AddResult)

NextRpc == BetweenRequests \/ RpcStep \/ Return

SpecRpc == Init /\ [][NextRpc]_vars

Next ==
    \/ Tick \/ AddWork \/ FinishWork \/ AddResult \/ PollChain \/ UpdatePoWWindow
    \/ RpcStep \/ Return

Spec == Init /\ [][Next]_vars

\* --------------------------------------------------------------- claims

Done(m) == pc = "done" /\ method = m

\* The pipeline wrote nothing since the summary() call began.
Quiet == l.writes0 = writes

\* C1 (as stated): in every summary() response, under any interleaving of
\* pipeline writes, works.finished <= works.all and works.verified <= works.all.
C1_CountsBelowAll ==
    Done("stats") =>
        /\ resp[1].works.finished <= resp[1].works.all
        /\ resp[1].works.verified <= resp[1].works.all

\* C1 (amended): when no pipeline write falls within the call,
\* works.finished <= works.all, and works.verified is at most the number of
\* Result records (one Work may have many verified Results).
C1_QuietCounts ==
    (Done("stats") /\ Quiet) =>
        /\ resp[1].works.finished <= resp[1].works.all
        /\ resp[1].works.verified <= Len(results)

C1_Witness ==
    /\ Done("stats") /\ Quiet
    /\ resp[1].works.finished >= 1
    /\ resp[1].works.verified >= 1

\* C9: the instant that decides which Works are working is the instant the
\* same summary() response reports as utc_time.
C9_SameNow ==
    Done("stats") => resp[1].utc_time = iso_format(l.q_now)

\* C10 (as stated): works.working counts the Works whose expiry is strictly
\* after now and that are not finished.
C10_StrictlyFuture ==
    [][(pc = "s_working" /\ pc' = "s_finished") =>
         l'.working = Cardinality({w \in works :
                          w.expire_time > l.q_now[1] /\ ~w.finished})]_vars

\* C10 (amended): works.working counts the Works whose expiry is at or after
\* now (expire_time >= now) and that are not finished; a Work expiring exactly
\* now is counted.
C10_NowOrFuture ==
    [][(pc = "s_working" /\ pc' = "s_finished") =>
         l'.working = Cardinality({w \in works :
                          w.expire_time >= l.q_now[1] /\ ~w.finished})]_vars

C10_Witness ==
    /\ pc = "s_finished" /\ Quiet
    /\ l.working = 1
    /\ \E w \in works : w.expire_time = l.q_now[1] /\ ~w.finished
    /\ \E w \in works : w.expire_time < l.q_now[1] /\ ~w.finished

\* C3: with the chain source disabled, current_work reports the greatest
\* block number among the Works it read and an ascending difficulty pair;
\* with no Work it reports 0, [0, 0] and no start time; tx_block_num is
\* always absent.
C3_LocalSource ==
    /\ [][(pc = "c_latest" /\ pc' # "c_latest") =>
            IF works = {}
            THEN l'.latest_work = None /\ pc' = "c_now"
            ELSE /\ l'.block_num = SetMax(BlockNums(works))
                 /\ \E w \in works : /\ w.block_num = l'.block_num
                                     /\ l'.start_time = Some(w.start_time)]_vars
    /\ [](Done("stats_current") /\ ~enabled =>
            /\ resp[1].block_num = l.block_num
            /\ resp[1].difficulty[1] <= resp[1].difficulty[2]
            /\ resp[1].tx_block_num = None
            /\ l.latest_work = None =>
                 /\ resp[1].block_num = 0
                 /\ resp[1].difficulty = <<0, 0>>
                 /\ resp[1].start_time = None)

C3_Witness ==
    /\ Done("stats_current") /\ ~enabled
    /\ resp[1].block_num = 1
    /\ resp[1].difficulty = <<1, 3>>
    /\ resp[1].start_time # None

\* C4: with the chain source enabled, block_num, tx_block_num, the difficulty
\* pair and the seconds to the next window all come from the chain state,
\* whatever the Work store holds, and the pair is
\* [hashpower(shard), hashpower(ds)] in that order.
C4_ChainSource ==
    (Done("stats_current") /\ enabled) =>
        /\ resp[1].block_num = zil.cur_ds_block
        /\ resp[1].tx_block_num = Some(zil.cur_tx_block)
        /\ resp[1].difficulty = <<difficulty_to_hashpower(zil.shard_difficulty),
                                  difficulty_to_hashpower(zil.ds_difficulty)>>
        /\ resp[1].next_pow_time = iso_format(Some(l.now + zil.secs_to_next_pow))
        /\ resp[1].utc_time = iso_format(Some(l.now))

C4_Witness ==
    /\ Done("stats_current") /\ enabled
    /\ works = {}
    /\ zil.shard_difficulty > zil.ds_difficulty
    /\ resp[1].difficulty[1] > resp[1].difficulty[2]
    /\ pow_window # zil.secs_to_next_pow

\* C2: the response of stats_hashrate has one entry per element of the list,
\* in its order; the entry of a present element carries that block number,
\* the entry of an absent one the latest Work block number at the time it
\* is resolved; an entry never changes the entries before it.
C2_HashrateList ==
    /\ [](Done("stats_hashrate") =>
            /\ Len(resp[1]) = Len(args.blocks)
            /\ \A i \in DOMAIN args.blocks :
                 args.blocks[i] # None => resp[1][i].block_num = args.blocks[i][1])
    /\ [][(pc = "h_next" /\ pc' = "h_rate" /\ args.blocks[l.i] = None /\ works # {})
            => l'.block_num = SetMax(BlockNums(works))]_vars
    /\ [][(pc = "h_rate" /\ pc' = "h_next") =>
            /\ Len(l'.out) = l.i
            /\ l'.out[l.i].block_num = l.block_num
            /\ SubSeq(l'.out, 1, l.i - 1) = l.out]_vars

C2_Witness ==
    /\ Done("stats_hashrate")
    /\ args.blocks = <<None, Some(0)>>
    /\ resp[1][1].block_num = 1
    /\ resp[1][2].block_num = 0

\* C5: reward_stats resolves an absent start_block to the earliest Work block
\* number and an absent end_block to the latest, each on its own, uses a
\* supplied bound unchanged, and echoes the bounds it passed to the rewards
\* aggregation with the two filters unchanged.
C5_RewardBounds ==
    /\ [](Done("stats_reward") =>
            /\ resp[1].start_block = l.call[1].block_num[1]
            /\ resp[1].end_block = l.call[1].block_num[2]
            /\ resp[1].wallet_address = args.wallet_address
            /\ resp[1].worker_name = args.worker_name
            /\ l.call[1].miner_wallet = args.wallet_address
            /\ l.call[1].worker_name = args.worker_name
            /\ args.start_block # None => resp[1].start_block = args.start_block[1]
            /\ args.end_block # None => resp[1].end_block = args.end_block[1])
    /\ [][(pc = "r_start" /\ pc' = "r_end" /\ args.start_block = None /\ works # {})
            => l'.start_block = SetMin(BlockNums(works))]_vars
    /\ [][(pc = "r_end" /\ pc' = "r_rewards" /\ args.end_block = None /\ works # {})
            => l'.end_block = SetMax(BlockNums(works))]_vars

C5_Witness ==
    /\ Done("stats_reward")
    /\ args.start_block = None /\ args.end_block = Some(1)
    /\ Cardinality(works) = 2
    /\ resp[1].start_block = 0 /\ resp[1].end_block = 1

\* Whether the key of the identity request in flight matches a record.
KeyMatches ==
    CASE method = "stats_node" ->
           \E n \in nodes : n.pub_key = NormalizePubKey(args.pub_key)
      [] method = "stats_miner" ->
           \E m \in miners : m.wallet_address = args.wallet_address
      [] method = "stats_worker" ->
           \E w \in workers : /\ w.wallet_address = args.wallet_address
                              /\ w.worker_name = args.worker_name

\* The collection the identity request in flight looks its key up in.
IdentityCollection ==
    CASE method = "stats_node" -> "nodes"
      [] method = "stats_miner" -> "miners"
      [] method = "stats_worker" -> "workers"

IdentityMethods == {"stats_node", "stats_miner", "stats_worker"}

\* C6: node_stats, miner_stats and worker_stats answer None when the key
\* matches no record, having read nothing but the identity lookup, and answer
\* a present response when it matches one.
C6_NotFoundIsAbsent ==
    (pc = "done" /\ method \in IdentityMethods) =>
        /\ KeyMatches <=> resp # None
        /\ ~KeyMatches => reads = <<IdentityCollection>>

C6_Witness ==
    /\ Done("stats_miner")
    /\ args.wallet_address = "w2"
    /\ resp = None
    /\ results # <<>>

\* The finished times of the Results in the scope of a wallet and a worker.
FinishedTimes(wallet, worker) ==
    {results[i].finished_time : i \in Matching(wallet, worker)}

\* C7: for an existing miner (worker), last_finished_time is the greatest
\* finished time among the Results of that wallet (and worker name) when they
\* are read, and None when there is none.
C7_LastFinishedTime ==
    /\ [][(pc = "m_last" /\ pc' = "m_hashrate") =>
            LET T == FinishedTimes(Some(args.wallet_address), None)
            IN  IF T = {} THEN l'.last_work = None
                ELSE /\ l'.last_work # None
                     /\ l'.last_work[1].finished_time = SetMax(T)]_vars
    /\ [][(pc = "w_last" /\ pc' = "w_works") =>
            LET T == FinishedTimes(Some(args.wallet_address), Some(args.worker_name))
            IN  IF T = {} THEN l'.last_work = None
                ELSE /\ l'.last_work # None
                     /\ l'.last_work[1].finished_time = SetMax(T)]_vars
    /\ [](pc = "done" /\ method \in {"stats_miner", "stats_worker"} /\ resp # None =>
            resp[1].last_finished_time =
                IF l.last_work = None THEN None
                ELSE Some([iso |-> l.last_work[1].finished_time]))

C7_Witness ==
    /\ Done("stats_miner")
    /\ resp # None
    /\ \E i \in DOMAIN results : results[i].finished_time = 0
    /\ resp[1].last_finished_time = Some([iso |-> 1])

\* C8: no step of any RPC method changes a Node, Miner, Worker, Work or
\* Result record: the store after the step is the store before it.
C8_ReadOnly == [][pc' # pc => store' = store]_vars

C8_Witness ==
    /\ pc = "done"
    /\ method = "stats_node"
    /\ resp # None
    /\ \E w \in works : ~w.finished /\ w.expire_time <= clock
    /\ results # <<>>

====
